---- MODULE Spec2Model ----
(***************************************************************************)
(* A model of deepdiff/distance.py: the scalar distance functions and       *)
(* their dispatcher, the vectorized (numpy) distance, the structural size   *)
(* counter _get_item_length, the rough distance of a diff session and the   *)
(* two pre-calculations of pairwise distances.                              *)
(*                                                                          *)
(* Python floats are modelled as exact rationals extended with the IEEE     *)
(* values nan, inf and -inf; rounding is not modelled.                      *)
(***************************************************************************)
EXTENDS Integers, Sequences, FiniteSets, TLC

VARIABLES
    pc,         \* the position of the call being modelled
    max_,       \* the ceiling passed to a distance function
    num1, num2, \* the operands of get_numeric_types_distance
    distance,   \* its outcome
    arr1, arr2, \* the operands of _get_numpy_array_distance
    distances,  \* its result
    hashes_added, hashes_removed, \* the candidate hashes of a pre-calculation
    t1_hashtable, t2_hashtable,   \* hash -> the entry holding the item
    original_type,                \* the _original_type argument
    cutoff_distance_for_pairs,    \* the session's ceiling
    pre_calced_distances,         \* the table a pre-calculation returns
    iterable_compare_func,        \* the user comparator: its verdict on (x, y)
    math_epsilon,                 \* the session's math_epsilon, or None
    added_idx, removed_idx,       \* the positions of the comparator loops
    heap,        \* the objects: heap[id] is the object of identity id
    stack,       \* the frames of the running _get_item_length calls
    diff_length, \* the result of the outermost _get_item_length call
    t1, t2,      \* the two objects of the session
    view,        \* the session's view
    hashes,      \* the session's hashes attribute: present or not, item -> length
    t1_len, t2_len,  \* the locals of _get_rough_distance
    rough_distance,  \* the outcome of _get_rough_distance
    calls        \* what the call asked of its collaborators so far

scalarVars == <<num1, num2, distance>>
vectorVars == <<arr1, arr2, distances>>
pairVars == <<hashes_added, hashes_removed, t1_hashtable, t2_hashtable,
              original_type, cutoff_distance_for_pairs>>
compareVars == <<iterable_compare_func, math_epsilon, added_idx, removed_idx>>
lengthVars == <<heap, stack, diff_length>>
roughVars == <<t1, t2, view, hashes, t1_len, t2_len, rough_distance, calls>>
vars == <<pc, max_, scalarVars, vectorVars, pairVars, pre_calced_distances,
          compareVars, lengthVars, roughVars>>

(***************************************************************************)
(* Bounds of the model.                                                     *)
(***************************************************************************)
MaxNum == 2
MaxCeilNum == 3
MaxCeilDen == 2
MaxDays == 1
MaxLen == 2
NumObjs == 2
MaxEdges == 3
MaxDepth == 8

(***************************************************************************)
(* Numbers: a finite rational n/d in lowest terms with d > 0, or one of     *)
(* the IEEE values.  Every number is a record with the same fields, so      *)
(* that record equality is identity of the value.                           *)
(***************************************************************************)
Abs(i) == IF i < 0 THEN -i ELSE i

RECURSIVE GCD(_, _)
GCD(a, b) == IF b = 0 THEN a ELSE GCD(b, a % b)

Fin(n, d) ==
    LET s == IF d < 0 THEN -1 ELSE 1
        g == GCD(Abs(n), Abs(d))
    IN  [k |-> "fin", n |-> (s * n) \div g, d |-> (s * d) \div g]

Int2Num(i) == [k |-> "fin", n |-> i, d |-> 1]
Zero == Int2Num(0)
NaN == [k |-> "nan", n |-> 0, d |-> 1]
PInf == [k |-> "inf", n |-> 1, d |-> 1]
NInf == [k |-> "inf", n |-> -1, d |-> 1]

IsNaN(x) == x.k = "nan"
IsFin(x) == x.k = "fin"
IsInf(x) == x.k = "inf"
Sign(x) == IF x.n > 0 THEN 1 ELSE IF x.n < 0 THEN -1 ELSE 0
InfOfSign(s) == IF s < 0 THEN NInf ELSE PInf

\* Python's == on numbers: nan equals nothing, not even itself.
FEq(x, y) == ~IsNaN(x) /\ ~IsNaN(y) /\ x = y

\* Python's < on numbers: false when either side is nan.
FLt(x, y) ==
    /\ ~IsNaN(x) /\ ~IsNaN(y)
    /\ x # y
    /\ IF IsInf(x) THEN Sign(x) < 0
       ELSE IF IsInf(y) THEN Sign(y) > 0
       ELSE x.n * y.d < y.n * x.d

FLe(x, y) == FLt(x, y) \/ FEq(x, y)

FNeg(x) == IF IsNaN(x) THEN NaN ELSE [x EXCEPT !.n = -x.n]

FAbs(x) == IF IsNaN(x) THEN NaN ELSE [x EXCEPT !.n = Abs(x.n)]

FAdd(x, y) ==
    IF IsNaN(x) \/ IsNaN(y) THEN NaN
    ELSE IF IsInf(x) /\ IsInf(y) THEN (IF x = y THEN x ELSE NaN)
    ELSE IF IsInf(x) THEN x
    ELSE IF IsInf(y) THEN y
    ELSE Fin(x.n * y.d + y.n * x.d, x.d * y.d)

FSub(x, y) == FAdd(x, FNeg(y))

\* IEEE division, total: what numpy computes (x/0 is an infinity or nan).
FDivIEEE(x, y) ==
    IF IsNaN(x) \/ IsNaN(y) THEN NaN
    ELSE IF IsInf(x) /\ IsInf(y) THEN NaN
    ELSE IF IsInf(x) THEN InfOfSign(Sign(x) * (IF Sign(y) < 0 THEN -1 ELSE 1))
    ELSE IF IsInf(y) THEN Zero
    ELSE IF y.n = 0 THEN (IF x.n = 0 THEN NaN ELSE InfOfSign(Sign(x)))
    ELSE Fin(x.n * y.d, x.d * y.n)

(***************************************************************************)
(* The outcome of a call: a returned number, the sentinel not_found, or a   *)
(* raised exception.                                                        *)
(***************************************************************************)
Ok(v) == [tag |-> "ok", val |-> v, exc |-> ""]
Raise(e) == [tag |-> "raise", val |-> Zero, exc |-> e]
not_found == [tag |-> "not_found", val |-> Zero, exc |-> ""]
NoOutcome == [tag |-> "none", val |-> Zero, exc |-> ""]

\* Python's float / float: ZeroDivisionError on a zero divisor.
PyTrueDiv(x, y) ==
    IF IsFin(y) /\ y.n = 0 THEN Raise("ZeroDivisionError") ELSE Ok(FDivIEEE(x, y))

\* Python's min(a, b): b when b < a, else a (so a when b is nan).
PyMin(a, b) == IF FLt(b, a) THEN b ELSE a

(***************************************************************************)
(* Values of the compared pair.  cls is the Python class; x is the number   *)
(* of an int or a float; days/seconds are the fields of a datetime (its     *)
(* ordinal day and second of the day), a date (its ordinal day) and a       *)
(* timedelta; hour/minute are the fields of a time.                         *)
(***************************************************************************)
Val(cls, x, days, seconds, hour, minute) ==
    [cls |-> cls, x |-> x, days |-> days, seconds |-> seconds,
     hour |-> hour, minute |-> minute]

EpochOrdinal == 719163
SecondsPerDay == 86400

PyInt(i) == Val("int", Int2Num(i), 0, 0, 0, 0)
PyFloat(x) == Val("float", x, 0, 0, 0, 0)
PyDateTime(day, sec) == Val("datetime", Zero, day, sec, 0, 0)
PyDate(day) == Val("date", Zero, day, 0, 0, 0)
PyTimeDelta(days, sec) == Val("timedelta", Zero, days, sec, 0, 0)
PyTime(h, m) == Val("time", Zero, 0, 0, h, m)
PyOther(cls) == Val(cls, Zero, 0, 0, 0, 0)

\* isinstance(v, type_): bool of the class hierarchy; datetime subclasses date.
isinstance(v, type_) ==
    CASE type_ = "only_numbers" -> v.cls \in {"int", "float"}
      [] type_ = "float" -> v.cls = "float"
      [] type_ = "datetime" -> v.cls = "datetime"
      [] type_ = "date" -> v.cls \in {"date", "datetime"}
      [] type_ = "timedelta" -> v.cls = "timedelta"
      [] type_ = "time" -> v.cls = "time"
      [] type_ = "list" -> v.cls = "list"
      [] OTHER -> FALSE

\* float(num): the number of an int or a float as a float.
float(v) == v.x

\* datetime.timestamp(): seconds since the epoch.
timestamp(v) == Int2Num((v.days - EpochOrdinal) * SecondsPerDay + v.seconds)

\* date.toordinal(): the ordinal day (of a datetime too).
toordinal(v) == Int2Num(v.days)

\* timedelta.total_seconds().
total_seconds(v) == Int2Num(v.days * SecondsPerDay + v.seconds)

\* helper.time_to_seconds: seconds since midnight.
time_to_seconds(v) == Int2Num(v.hour * 3600 + v.minute * 60)

(***************************************************************************)
(* _get_numbers_distance.  The operands are numbers, so float(num) reads    *)
(* the same number; the division that computes the divisor is outside the   *)
(* try block and the division by the divisor is inside it.                  *)
(***************************************************************************)
_get_numbers_distance_NoClamp(n1, n2, max) ==
    IF FEq(n1, n2) THEN Ok(Zero)
    ELSE LET divisor == PyTrueDiv(FAdd(n1, n2), max)
         IN  IF divisor.tag = "raise" THEN divisor
             ELSE IF FEq(divisor.val, Zero) THEN Ok(max)
             ELSE LET q == PyTrueDiv(FSub(n1, n2), divisor.val)
                  IN  IF q.tag = "raise" THEN Ok(max)
                      ELSE Ok(FAbs(q.val))

_get_numbers_distance_NoAbs(n1, n2, max) ==
    IF FEq(n1, n2) THEN Ok(Zero)
    ELSE LET divisor == PyTrueDiv(FAdd(n1, n2), max)
         IN  IF divisor.tag = "raise" THEN divisor
             ELSE IF FEq(divisor.val, Zero) THEN Ok(max)
             ELSE LET q == PyTrueDiv(FSub(n1, n2), divisor.val)
                  IN  IF q.tag = "raise" THEN Ok(max)
                      ELSE Ok(PyMin(max, q.val))

_get_numbers_distance(n1, n2, max) ==
    IF FEq(n1, n2) THEN Ok(Zero)
    ELSE LET divisor == PyTrueDiv(FAdd(n1, n2), max)
         IN  IF divisor.tag = "raise" THEN divisor
             ELSE IF FEq(divisor.val, Zero) THEN Ok(max)
             ELSE LET q == PyTrueDiv(FSub(n1, n2), divisor.val)
                  IN  IF q.tag = "raise" THEN Ok(max)
                      ELSE Ok(PyMin(max, FAbs(q.val)))

_get_datetime_distance(date1, date2, max) ==
    _get_numbers_distance(timestamp(date1), timestamp(date2), max)

_get_date_distance(date1, date2, max) ==
    _get_numbers_distance(toordinal(date1), toordinal(date2), max)

_get_timedelta_distance(timedelta1, timedelta2, max) ==
    _get_numbers_distance(total_seconds(timedelta1), total_seconds(timedelta2), max)

_get_time_distance(time1, time2, max) ==
    _get_numbers_distance(time_to_seconds(time1), time_to_seconds(time2), max)

TYPES_TO_DIST_FUNC ==
    <<"only_numbers", "datetime", "date", "timedelta", "time">>

\* The function of a TYPES_TO_DIST_FUNC entry applied to the pair.
ApplyDistFunc(type_, v1, v2, max) ==
    CASE type_ = "only_numbers" -> _get_numbers_distance(float(v1), float(v2), max)
      [] type_ = "datetime" -> _get_datetime_distance(v1, v2, max)
      [] type_ = "date" -> _get_date_distance(v1, v2, max)
      [] type_ = "timedelta" -> _get_timedelta_distance(v1, v2, max)
      [] type_ = "time" -> _get_time_distance(v1, v2, max)

RECURSIVE DispatchFrom(_, _, _, _)
DispatchFrom(i, v1, v2, max) ==
    IF i > Len(TYPES_TO_DIST_FUNC) THEN not_found
    ELSE IF isinstance(v1, TYPES_TO_DIST_FUNC[i]) /\ isinstance(v2, TYPES_TO_DIST_FUNC[i])
         THEN ApplyDistFunc(TYPES_TO_DIST_FUNC[i], v1, v2, max)
         ELSE DispatchFrom(i + 1, v1, v2, max)

get_numeric_types_distance(v1, v2, max) == DispatchFrom(1, v1, v2, max)

(***************************************************************************)
(* Inputs of the scalar distance.                                           *)
(***************************************************************************)
Ints == {PyInt(i) : i \in -MaxNum..MaxNum}
Floats == {PyFloat(Fin(i, 2)) : i \in -MaxNum..MaxNum} \cup {PyFloat(NaN), PyFloat(PInf), PyFloat(NInf)}
DateTimes == {PyDateTime(EpochOrdinal + d, s) : d \in -MaxDays..MaxDays, s \in {0, 43200}}
Dates == {PyDate(EpochOrdinal + d) : d \in -MaxDays..MaxDays}
TimeDeltas == {PyTimeDelta(d, s) : d \in -MaxDays..MaxDays, s \in {0, 3600}}
Times == {PyTime(h, m) : h \in 0..MaxDays, m \in {0, 30}}
Others == {PyOther("str"), PyOther("list")}
Values == Ints \cup Floats \cup DateTimes \cup Dates \cup TimeDeltas \cup Times \cup Others

Ceilings == {Fin(n, d) : n \in 0..MaxCeilNum, d \in 1..MaxCeilDen}

NoValue == PyOther("none")

\* The variables of a component that the specification at hand does not use.
ScalarIdle == num1 = NoValue /\ num2 = NoValue /\ distance = NoOutcome
VectorIdle == arr1 = <<>> /\ arr2 = <<>> /\ distances = <<>>
LengthIdle == heap = <<>> /\ stack = <<>> /\ diff_length = -1
CompareIdle ==
    /\ iterable_compare_func = <<>>
    /\ math_epsilon = [k |-> "none", n |-> 0, d |-> 1]
    /\ added_idx = 0 /\ removed_idx = 0
NoCalls == [report |-> FALSE, reads |-> <<>>, hashed |-> <<>>]
NoHashes == [present |-> FALSE, table |-> <<>>]
RoughIdle ==
    /\ t1 = NoValue /\ t2 = NoValue /\ view = "None"
    /\ hashes = NoHashes
    /\ t1_len = NoOutcome /\ t2_len = NoOutcome /\ rough_distance = NoOutcome
    /\ calls = NoCalls
PairIdle ==
    /\ CompareIdle
    /\ hashes_added = <<>> /\ hashes_removed = <<>>
    /\ t1_hashtable = <<>> /\ t2_hashtable = <<>>
    /\ original_type = "None"
    /\ cutoff_distance_for_pairs = Zero
    /\ pre_calced_distances = [tag |-> "unset", table |-> <<>>]

(***************************************************************************)
(* The scalar specification: one call of get_numeric_types_distance.        *)
(***************************************************************************)
ScalarInit ==
    /\ pc = "scalar_call"
    /\ num1 \in Values
    /\ num2 \in Values
    /\ max_ \in Ceilings
    /\ distance = NoOutcome
    /\ VectorIdle /\ PairIdle /\ LengthIdle /\ RoughIdle

CallNumericTypesDistance ==
    /\ pc = "scalar_call"
    /\ distance' = get_numeric_types_distance(num1, num2, max_)
    /\ pc' = "scalar_done"
    /\ UNCHANGED <<num1, num2, max_, vectorVars, pairVars, pre_calced_distances, compareVars, lengthVars, roughVars>>

ScalarNext == CallNumericTypesDistance

ScalarSpec == ScalarInit /\ [][ScalarNext]_vars

(***************************************************************************)
(* Properties of the scalar distance.                                       *)
(***************************************************************************)
\* The two values share a numeric-like category.
SameCategory(v1, v2) ==
    \/ v1.cls \in {"int", "float"} /\ v2.cls \in {"int", "float"}
    \/ v1.cls \in {"date", "datetime"} /\ v2.cls \in {"date", "datetime"}
    \/ v1.cls = "timedelta" /\ v2.cls = "timedelta"
    \/ v1.cls = "time" /\ v2.cls = "time"

IsNaNValue(v) == v.cls = "float" /\ IsNaN(v.x)

InRange(x, max) == FLe(Zero, x) /\ FLe(x, max)

\* C1 as stated: for a same-category pair and a positive ceiling, a returned
\* distance lies in [0, max_], and the distance of a value to itself is 0.
C1_Stated ==
    (pc = "scalar_done" /\ SameCategory(num1, num2) /\ FLt(Zero, max_)
        /\ distance.tag = "ok")
    => /\ InRange(distance.val, max_)
       /\ (num1 = num2 => distance.val = Zero)

\* C1 amended: for a same-category pair and a positive ceiling, a returned
\* distance lies in [0, max_], and the distance of a value to itself is 0
\* unless the value is nan, whose distance to itself is max_.
C1_RangeAndIdentity ==
    (pc = "scalar_done" /\ SameCategory(num1, num2) /\ FLt(Zero, max_)
        /\ distance.tag = "ok")
    => /\ InRange(distance.val, max_)
       /\ (num1 = num2 /\ ~IsNaNValue(num1) => distance.val = Zero)
       /\ (num1 = num2 /\ IsNaNValue(num1) => distance.val = max_)

C1_Witness ==
    /\ pc = "scalar_done"
    /\ num1 = PyInt(0) /\ num2 = PyInt(0)
    /\ FLt(Zero, max_)
    /\ distance = Ok(Zero)

\* C5: the outcome of the dispatcher (a distance, not_found or the error
\* raised) is the same for (num1, num2) and for (num2, num1).
C5_Symmetric ==
    pc = "scalar_done" => distance = get_numeric_types_distance(num2, num1, max_)

C5_Witness ==
    /\ pc = "scalar_done"
    /\ num1 = PyInt(1) /\ num2 = PyInt(2)
    /\ distance.tag = "ok"
    /\ FLt(Zero, distance.val) /\ FLt(distance.val, max_)

\* The divisor (a + b) / max_ of the pair is zero or cannot be computed.
DivisorDegenerate(v1, v2, max) ==
    LET f1 == IF v1.cls \in {"int", "float"} THEN float(v1)
              ELSE IF v1.cls = "timedelta" THEN total_seconds(v1)
              ELSE IF v1.cls = "time" THEN time_to_seconds(v1)
              ELSE IF v1.cls = "datetime" /\ v2.cls = "datetime" THEN timestamp(v1)
              ELSE toordinal(v1)
        f2 == IF v2.cls \in {"int", "float"} THEN float(v2)
              ELSE IF v2.cls = "timedelta" THEN total_seconds(v2)
              ELSE IF v2.cls = "time" THEN time_to_seconds(v2)
              ELSE IF v1.cls = "datetime" /\ v2.cls = "datetime" THEN timestamp(v2)
              ELSE toordinal(v2)
    IN  /\ ~FEq(f1, f2)
        /\ \/ max = Zero
           \/ FAdd(f1, f2) = Zero

\* C10 as stated: for a same-category pair and a ceiling in [0, 1], a value
\* is returned, and it is max_ when a # b and the divisor is zero or cannot
\* be computed.
C10_Stated ==
    (pc = "scalar_done" /\ SameCategory(num1, num2) /\ InRange(max_, Int2Num(1)))
    => /\ distance.tag = "ok"
       /\ (DivisorDegenerate(num1, num2, max_) => distance.val = max_)

(***************************************************************************)
(* The vectorized distance.  A numpy array is a sequence of numbers and     *)
(* the numpy operations act element by element; numpy divides by IEEE       *)
(* rules and raises nothing.                                                *)
(***************************************************************************)
\* np.clip(x, lo, hi) of one element: nan stays nan.
NpClip(x, lo, hi) ==
    IF IsNaN(x) THEN NaN
    ELSE LET low == IF FLt(x, lo) THEN lo ELSE x
         IN  IF FLt(hi, low) THEN hi ELSE low

\* _numpy_div(a, b): a / b where b != 0 and replace_inf_with elsewhere,
\* then 0 wherever a == b (a is the dividend and b the divisor).
_numpy_div(a, b, replace_inf_with) ==
    [i \in DOMAIN a |->
        IF FEq(a[i], b[i]) THEN Zero
        ELSE IF ~FEq(b[i], Zero) THEN FDivIEEE(a[i], b[i])
        ELSE replace_inf_with]

_get_numpy_array_distance(n1, n2, max) ==
    LET divisor == [i \in DOMAIN n1 |-> FDivIEEE(FAdd(n1[i], n2[i]), max)]
        dividend == [i \in DOMAIN n1 |-> FSub(n1[i], n2[i])]
        result == _numpy_div(dividend, divisor, max)
    IN  [i \in DOMAIN n1 |-> NpClip(FAbs(result[i]), Zero, max)]

(***************************************************************************)
(* The vectorized specification: one call of _get_numpy_array_distance on   *)
(* two arrays of the same length.                                           *)
(***************************************************************************)
ArrayNums == {Int2Num(i) : i \in -MaxNum..MaxNum}

VectorInit ==
    /\ pc = "vector_call"
    /\ \E n \in 1..MaxLen :
          /\ arr1 \in [1..n -> ArrayNums]
          /\ arr2 \in [1..n -> ArrayNums]
    /\ max_ \in Ceilings
    /\ distances = <<>>
    /\ ScalarIdle /\ PairIdle /\ LengthIdle /\ RoughIdle

CallNumpyArrayDistance ==
    /\ pc = "vector_call"
    /\ distances' = _get_numpy_array_distance(arr1, arr2, max_)
    /\ pc' = "vector_done"
    /\ UNCHANGED <<arr1, arr2, max_, scalarVars, pairVars, pre_calced_distances, compareVars, lengthVars, roughVars>>

VectorNext == CallNumpyArrayDistance

VectorSpec == VectorInit /\ [][VectorNext]_vars

\* C2 as stated: for a positive ceiling every element of the vectorized
\* distance equals the scalar distance of the two elements: max_ where the
\* sum is 0 and the elements differ, 0 where they are equal, and
\* min(max_, |a - b| / ((a + b) / max_)) elsewhere.
C2_Stated ==
    (pc = "vector_done" /\ FLt(Zero, max_))
    => \A i \in DOMAIN arr1 :
          /\ Ok(distances[i]) = _get_numbers_distance(arr1[i], arr2[i], max_)
          /\ distances[i] =
                IF arr1[i] = arr2[i] THEN Zero
                ELSE IF FAdd(arr1[i], arr2[i]) = Zero THEN max_
                ELSE PyMin(max_, FAbs(FDivIEEE(FSub(arr1[i], arr2[i]),
                                               FDivIEEE(FAdd(arr1[i], arr2[i]), max_))))

(***************************************************************************)
(* The pre-calculated distance tables.  A hash is a sequence of hex         *)
(* digits; the key of a pair is "{}--{}".format(added_hash, removed_hash).  *)
(***************************************************************************)
PairKey(added_hash, removed_hash) == added_hash \o <<"-", "-">> \o removed_hash

\* table[key] = value of a dict: a later assignment replaces an earlier one.
DictSet(table, key, value) ==
    [x \in (DOMAIN table) \cup {key} |-> IF x = key THEN value ELSE table[x]]

NoTable == [tag |-> "None", table |-> <<>>]
Table(t) == [tag |-> "dict", table |-> t]

\* helper.get_homogeneous_numpy_compatible_type_of_seq: the type of the
\* items when all have the same numpy-compatible type, else False.
get_homogeneous_numpy_compatible_type_of_seq(seq) ==
    LET first_type == seq[1].cls
    IN  IF first_type \in {"int", "float"}
            /\ \A i \in DOMAIN seq : seq[i].cls = first_type
        THEN first_type
        ELSE "False"

\* The conversion of one item to the dtype: int truncates towards zero.
NpCast(v, dtype) ==
    IF dtype = "int" /\ IsFin(v.x)
    THEN Int2Num(Sign(v.x) * (Abs(v.x.n) \div v.x.d))
    ELSE v.x

\* helper.np_array_factory(seq, dtype): the array of the items as dtype.
np_array_factory(seq, dtype) == [i \in DOMAIN seq |-> NpCast(seq[i], dtype)]

\* helper.cartesian_product_numpy(a, b): the rows (a[p], b[q]), the rows
\* of one a[p] together and in the order of b.
cartesian_product_numpy(a, b) ==
    [i \in 1..(Len(a) * Len(b)) |->
        <<a[((i - 1) \div Len(b)) + 1], b[((i - 1) % Len(b)) + 1]>>]

\* pairs.T[c]: one coordinate of every row.
Transposed(pairs, c) == [i \in DOMAIN pairs |-> pairs[i][c]]

\* Lines 127-131: the loops that store distances[i] under the key of the
\* i-th pair.  st is <<i, pre_calced_distances>>.
RECURSIVE StoreRemoved(_, _, _, _, _)
StoreRemoved(added_hash, hr, q, dists, st) ==
    IF q > Len(hr) THEN st
    ELSE StoreRemoved(added_hash, hr, q + 1, dists,
            <<st[1] + 1, DictSet(st[2], PairKey(added_hash, hr[q]), dists[st[1] + 1])>>)

RECURSIVE StoreAdded(_, _, _, _, _)
StoreAdded(ha, hr, p, dists, st) ==
    IF p > Len(ha) THEN st
    ELSE StoreAdded(ha, hr, p + 1, dists, StoreRemoved(ha[p], hr, 1, dists, st))

\* The same loops with the counter advanced by the outer loop only.
StoreDistances_CounterInOuterLoop(ha, hr, dists) ==
    LET RECURSIVE Outer(_, _)
        Outer(p, t) ==
            IF p > Len(ha) THEN t
            ELSE Outer(p + 1, StoreRemoved(ha[p], hr, 1, dists, <<p - 1, t>>)[2])
    IN  Outer(1, <<>>)

StoreDistances(ha, hr, dists) == StoreAdded(ha, hr, 1, dists, <<0, <<>>>>)[2]

_precalculate_numpy_arrays_distance(ha, hr, t1h, t2h, ot, cutoff) ==
    IF isinstance(t2h[ha[1]].item, "list") THEN NoTable
    ELSE
      LET added == [i \in DOMAIN ha |-> t2h[ha[i]].item]
          removed == [i \in DOMAIN hr |-> t1h[hr[i]].item]
          added_type == get_homogeneous_numpy_compatible_type_of_seq(added)
          removed_type == get_homogeneous_numpy_compatible_type_of_seq(removed)
          type_ == IF ot = "None" /\ added_type # "False" /\ added_type = removed_type
                   THEN added_type ELSE ot
      IN  IF type_ = "None" THEN NoTable
          ELSE
            LET pairs == cartesian_product_numpy(np_array_factory(added, type_),
                                                 np_array_factory(removed, type_))
                dists == _get_numpy_array_distance(Transposed(pairs, 1),
                                                   Transposed(pairs, 2), cutoff)
            IN  Table(StoreDistances(ha, hr, dists))

(***************************************************************************)
(* The candidates of a pre-calculation: the hashes are distinct, every      *)
(* hash has an entry in its table, and a pinned _original_type is the       *)
(* dtype of the arrays the items were taken from.                           *)
(***************************************************************************)
AddedPool == {<<"a">>, <<"a", "b">>}
RemovedPool == {<<"b", "c">>, <<"c">>}

DistinctSeqs(S) ==
    {q \in UNION {[1..n -> S] : n \in 1..Cardinality(S)} :
        \A i, j \in DOMAIN q : i # j => q[i] # q[j]}

ItemVals == {PyInt(0), PyInt(1), PyInt(MaxNum), PyFloat(Fin(1, 2)), PyOther("list")}
Entries == {[item |-> v] : v \in ItemVals}
PairCeilings == {c \in Ceilings : FLe(c, Int2Num(1))}

PinnedTypeOk ==
    original_type # "None" =>
        /\ \A i \in DOMAIN hashes_added : t2_hashtable[hashes_added[i]].item.cls = original_type
        /\ \A i \in DOMAIN hashes_removed : t1_hashtable[hashes_removed[i]].item.cls = original_type

NumpyInit ==
    /\ pc = "numpy_call"
    /\ hashes_added \in DistinctSeqs(AddedPool)
    /\ hashes_removed \in DistinctSeqs(RemovedPool)
    /\ t1_hashtable \in [RemovedPool -> Entries]
    /\ t2_hashtable \in [AddedPool -> Entries]
    /\ original_type \in {"None", "int", "float"}
    /\ PinnedTypeOk
    /\ cutoff_distance_for_pairs \in PairCeilings
    /\ pre_calced_distances = [tag |-> "unset", table |-> <<>>]
    /\ max_ = Zero
    /\ ScalarIdle /\ VectorIdle /\ CompareIdle /\ LengthIdle /\ RoughIdle

CallPrecalculateNumpy ==
    /\ pc = "numpy_call"
    /\ pre_calced_distances' =
          _precalculate_numpy_arrays_distance(hashes_added, hashes_removed,
              t1_hashtable, t2_hashtable, original_type, cutoff_distance_for_pairs)
    /\ pc' = "numpy_done"
    /\ UNCHANGED <<max_, scalarVars, vectorVars, pairVars, compareVars, lengthVars, roughVars>>

NumpyNext == CallPrecalculateNumpy

NumpySpec == NumpyInit /\ [][NumpyNext]_vars

\* The items of the two batches have one element type in common.
SharedElementType ==
    \E ty \in {"int", "float"} :
        /\ \A i \in DOMAIN hashes_added : t2_hashtable[hashes_added[i]].item.cls = ty
        /\ \A i \in DOMAIN hashes_removed : t1_hashtable[hashes_removed[i]].item.cls = ty

FirstAddedIsList == t2_hashtable[hashes_added[1]].item.cls = "list"

\* C9: when the first added item is no list and both batches share one
\* element type, the table has exactly one entry per (added, removed) pair
\* and the entry of the pair at positions p, q is the vectorized distance
\* of that added item and that removed item with the session's ceiling;
\* when the first added item is a list or no type is shared and none is
\* pinned, there is no table.
C9_TableMatchesPairs ==
    pc = "numpy_done" =>
      /\ (~FirstAddedIsList /\ SharedElementType) =>
            /\ pre_calced_distances.tag = "dict"
            /\ DOMAIN pre_calced_distances.table =
                 {PairKey(hashes_added[p], hashes_removed[q]) :
                    p \in DOMAIN hashes_added, q \in DOMAIN hashes_removed}
            /\ Cardinality(DOMAIN pre_calced_distances.table) =
                 Len(hashes_added) * Len(hashes_removed)
            /\ \A p \in DOMAIN hashes_added, q \in DOMAIN hashes_removed :
                 pre_calced_distances.table[PairKey(hashes_added[p], hashes_removed[q])] =
                   _get_numpy_array_distance(
                       <<t2_hashtable[hashes_added[p]].item.x>>,
                       <<t1_hashtable[hashes_removed[q]].item.x>>,
                       cutoff_distance_for_pairs)[1]
      /\ (FirstAddedIsList \/ (original_type = "None" /\ ~SharedElementType)) =>
            pre_calced_distances = NoTable

C9_Witness ==
    /\ pc = "numpy_done"
    /\ Len(hashes_added) = 2 /\ Len(hashes_removed) = 2
    /\ pre_calced_distances.tag = "dict"
    /\ Cardinality({pre_calced_distances.table[k] : k \in DOMAIN pre_calced_distances.table}) = 3

(***************************************************************************)
(* _precalculate_distance_by_custom_compare_func.  One step is one          *)
(* iteration of the inner loop: a call of the user comparator, which        *)
(* returns a truthy or falsy verdict or raises CannotCompare.               *)
(***************************************************************************)
NoneNum == [k |-> "none", n |-> 0, d |-> 1]

\* Python's x or y on a number-or-None x.
PyOr(x, y) == IF x.k = "none" \/ (IsFin(x) /\ x.n = 0) THEN y ELSE x

\* The distance of a close pair taken from the ceiling of the session.
CompareDistance_Cutoff(is_close_distance, eps) ==
    IF is_close_distance THEN PyOr(eps, Fin(1, 1000000))
    ELSE cutoff_distance_for_pairs

\* Lines 88-92.
CompareDistance(is_close_distance, eps) ==
    IF is_close_distance THEN PyOr(eps, Fin(1, 1000000)) ELSE Int2Num(1)

Verdicts == {"close", "not_close", "CannotCompare"}
CompareItems == {PyInt(0), PyInt(1)}
Epsilons == {NoneNum, Zero, Fin(1, 1000)}

\* Distinct hashes are hashes of distinct items.
Injective(f) == \A x, y \in DOMAIN f : x # y => f[x] # f[y]

CompareInit ==
    /\ pc = "compare_loop"
    /\ hashes_added \in DistinctSeqs(AddedPool)
    /\ hashes_removed \in DistinctSeqs(RemovedPool)
    /\ t1_hashtable \in [RemovedPool -> {[item |-> v] : v \in CompareItems}]
    /\ t2_hashtable \in [AddedPool -> {[item |-> v] : v \in CompareItems}]
    /\ Injective(t1_hashtable) /\ Injective(t2_hashtable)
    /\ original_type = "None"
    /\ cutoff_distance_for_pairs \in PairCeilings
    /\ iterable_compare_func \in [CompareItems \X CompareItems -> Verdicts]
    /\ math_epsilon \in Epsilons
    /\ pre_calced_distances = Table(<<>>)
    /\ added_idx = 1 /\ removed_idx = 1
    /\ max_ = Zero
    /\ ScalarIdle /\ VectorIdle /\ LengthIdle /\ RoughIdle

CompareStep ==
    /\ pc = "compare_loop"
    /\ added_idx <= Len(hashes_added)
    /\ LET added_hash == hashes_added[added_idx]
           removed_hash == hashes_removed[removed_idx]
           verdict == iterable_compare_func[<<t2_hashtable[added_hash].item,
                                              t1_hashtable[removed_hash].item>>]
       IN  pre_calced_distances' =
             IF verdict = "CannotCompare" THEN pre_calced_distances
             ELSE Table(DictSet(pre_calced_distances.table,
                                PairKey(added_hash, removed_hash),
                                CompareDistance(verdict = "close", math_epsilon)))
    /\ IF removed_idx < Len(hashes_removed)
       THEN removed_idx' = removed_idx + 1 /\ added_idx' = added_idx
       ELSE removed_idx' = 1 /\ added_idx' = added_idx + 1
    /\ UNCHANGED <<pc, max_, scalarVars, vectorVars, pairVars,
                   iterable_compare_func, math_epsilon, lengthVars, roughVars>>

CompareReturn ==
    /\ pc = "compare_loop"
    /\ added_idx > Len(hashes_added)
    /\ pc' = "compare_done"
    /\ UNCHANGED <<max_, scalarVars, vectorVars, pairVars, pre_calced_distances,
                   compareVars, lengthVars, roughVars>>

CompareNext == CompareStep \/ CompareReturn

CompareSpec == CompareInit /\ [][CompareNext]_vars

\* The verdict of the comparator on the pair of two hashes.
VerdictOn(added_hash, removed_hash) ==
    iterable_compare_func[<<t2_hashtable[added_hash].item, t1_hashtable[removed_hash].item>>]

\* C6: in the returned table a pair has no entry iff the comparator raised
\* CannotCompare on it; the entry of a close pair is math_epsilon when that
\* is set and not 0, else 1e-6, and never 0; the entry of a pair that is not
\* close is 1 whatever the ceiling; no key is outside the cross product.
C6_TableOfVerdicts ==
    pc = "compare_done" =>
      LET t == pre_calced_distances.table
      IN  /\ \A p \in DOMAIN hashes_added, q \in DOMAIN hashes_removed :
               LET key == PairKey(hashes_added[p], hashes_removed[q])
                   v == VerdictOn(hashes_added[p], hashes_removed[q])
               IN  /\ (key \notin DOMAIN t) <=> (v = "CannotCompare")
                   /\ v = "close" =>
                        /\ t[key] # Zero
                        /\ t[key] = (IF math_epsilon \in {NoneNum, Zero}
                                     THEN Fin(1, 1000000) ELSE math_epsilon)
                   /\ v = "not_close" => t[key] = Int2Num(1)
          /\ DOMAIN t \subseteq
               {PairKey(hashes_added[p], hashes_removed[q]) :
                  p \in DOMAIN hashes_added, q \in DOMAIN hashes_removed}

C6_Witness ==
    /\ pc = "compare_done"
    /\ Len(hashes_added) = 2 /\ Len(hashes_removed) = 2
    /\ VerdictOn(hashes_added[1], hashes_removed[1]) = "CannotCompare"
    /\ VerdictOn(hashes_added[1], hashes_removed[2]) = "close"
    /\ VerdictOn(hashes_added[2], hashes_removed[1]) = "not_close"
    /\ Cardinality(DOMAIN pre_calced_distances.table) = 3
    /\ cutoff_distance_for_pairs # Int2Num(1)
    /\ math_epsilon = NoneNum

(***************************************************************************)
(* _get_item_length.  An object is a record of its kind and its entries;    *)
(* an entry holds the key (of a mapping) and the identity of the value.     *)
(* The recursion is a stack of frames: the item, the parents_ids the call   *)
(* was given, the position of the next entry and the length so far.         *)
(***************************************************************************)
StrKey(t) == [str |-> TRUE, s |-> t, i |-> 0]
IntKey(n) == [str |-> FALSE, s |-> "", i |-> n]
Entry(key, val) == [key |-> key, val |-> val]
Obj(kind, elems) == [kind |-> kind, elems |-> elems]
Atom(kind) == Obj(kind, <<>>)

\* The report keys whose value is deduplicated (line 145).
DedupKeys == {"iterable_items_added_at_indexes", "iterable_items_removed_at_indexes"}

\* key.startswith('_') on the textual keys of the modelled reports.
startswith_underscore(t) == t \in {"_numpy_paths", "_iterable_opcodes"}

\* Line 159: the internal keys that do not count.
IsInternalKey(key) ==
    key.str /\ (startswith_underscore(key.s) \/ key.s = "deep_distance" \/ key.s = "new_path")

\* The guard that never finds the identity among the parents.
InParents_Never(item_id, parents_ids) == FALSE

\* Lines 163 and 174: parents_ids and item_id in parents_ids.
InParents(item_id, parents_ids) == parents_ids # {} /\ item_id \in parents_ids

\* helper.add_to_frozen_set: a new set, the given one is left as it was.
add_to_frozen_set(parents_ids, item_id) == parents_ids \cup {item_id}

\* Lines 150-154 with the identities remembered... not at all.
RECURSIVE Dedupe_KeepAll(_, _, _)
Dedupe_KeepAll(elems, k, used_value_ids) ==
    IF k > Len(elems) THEN <<>>
    ELSE <<elems[k]>> \o Dedupe_KeepAll(elems, k + 1, used_value_ids)

\* Lines 148-154: the entries of indexes_to_items whose value is the first
\* of its identity.
RECURSIVE Dedupe(_, _, _)
Dedupe(elems, k, used_value_ids) ==
    IF k > Len(elems) THEN <<>>
    ELSE IF elems[k].val \in used_value_ids
         THEN Dedupe(elems, k + 1, used_value_ids)
         ELSE <<elems[k]>> \o Dedupe(elems, k + 1, used_value_ids \cup {elems[k].val})

\* Lines 146-156: the objects made for a deduplicated subitem: new_subitem
\* first, then one new_indexes_to_items per path.  h is the heap and sub
\* the identity of the subitem; new_subitem gets identity Len(h) + 1.
DedupedObjects(h, sub) ==
    LET paths == h[sub].elems
        new_subitem ==
            Obj("dict", [j \in DOMAIN paths |->
                            Entry(paths[j].key, Len(h) + 1 + j)])
    IN  <<new_subitem>> \o
        [j \in DOMAIN paths |-> Obj("dict", Dedupe(h[paths[j].val].elems, 1, {}))]

IsContainer(o) == o.kind \in {"dict", "list", "object"}

\* The length of an item that is not iterated: a number, a string or a
\* class is 1, an object without __dict__ is 0.
ScalarLength(o) == IF o.kind \in {"num", "str", "type"} THEN 1 ELSE 0

Frame(item, parents_ids) ==
    [item |-> item, parents_ids |-> parents_ids, idx |-> 1, length |-> 0]

Top == stack[Len(stack)]
TopObj == heap[Top.item]
TopEntry == TopObj.elems[Top.idx]
HasNextEntry == IsContainer(TopObj) /\ Top.idx <= Len(TopObj.elems)

\* The continue statements of lines 160, 164 and 175.
SkipsEntry ==
    \/ TopObj.kind = "dict" /\ IsInternalKey(TopEntry.key)
    \/ TopObj.kind \in {"dict", "list"} /\ InParents(TopEntry.val, Top.parents_ids)

NeedsDedup == TopObj.kind = "dict" /\ TopEntry.key.str /\ TopEntry.key.s \in DedupKeys

Advance(st) == [st EXCEPT ![Len(st)].idx = @ + 1]

\* The variables _get_item_length leaves alone.
lengthOthers == <<max_, scalarVars, vectorVars, pairVars, pre_calced_distances,
                  compareVars, roughVars>>

LengthSkip ==
    /\ pc = "length_run"
    /\ HasNextEntry
    /\ SkipsEntry
    /\ stack' = Advance(stack)
    /\ UNCHANGED <<pc, heap, diff_length, lengthOthers>>

\* The recursive call of lines 166, 177 and 185; a call deeper than the
\* interpreter's recursion limit raises RecursionError.
LengthDescend ==
    /\ pc = "length_run"
    /\ HasNextEntry
    /\ ~SkipsEntry
    /\ IF Len(stack) >= MaxDepth
       THEN pc' = "RecursionError" /\ UNCHANGED <<heap, stack>>
       ELSE LET subitem == IF NeedsDedup THEN Len(heap) + 1 ELSE TopEntry.val
            IN  /\ heap' = IF NeedsDedup
                           THEN heap \o DedupedObjects(heap, TopEntry.val)
                           ELSE heap
                /\ stack' = Append(Advance(stack),
                                   Frame(subitem, add_to_frozen_set(Top.parents_ids, subitem)))
                /\ pc' = pc
    /\ UNCHANGED <<diff_length, lengthOthers>>

\* return length: to the calling frame, or as the result of the outermost call.
LengthReturn ==
    /\ pc = "length_run"
    /\ ~HasNextEntry
    /\ LET length == IF IsContainer(TopObj) THEN Top.length ELSE ScalarLength(TopObj)
           rest == SubSeq(stack, 1, Len(stack) - 1)
       IN  IF rest = <<>>
           THEN /\ diff_length' = length
                /\ stack' = rest
                /\ pc' = "length_done"
           ELSE /\ stack' = [rest EXCEPT ![Len(rest)].length = @ + length]
                /\ UNCHANGED <<pc, diff_length>>
    /\ UNCHANGED <<heap, lengthOthers>>

(***************************************************************************)
(* The object graphs measured.  A generic graph has NumObjs containers      *)
(* (identities 1..NumObjs, 1 the measured item) and one number; edges       *)
(* lists the references in the order they are stored.  A report is          *)
(* {key: {path: {position: item}}}.                                         *)
(***************************************************************************)
GenericKeys == <<"values_changed", "type_changes", "_numpy_paths", "deep_distance">>
GenericKey(pos) == IF pos <= Len(GenericKeys) THEN StrKey(GenericKeys[pos]) ELSE IntKey(pos)

EntriesOf(kind, refs) ==
    [j \in DOMAIN refs |->
        Entry(IF kind = "dict" THEN GenericKey(j) ELSE IntKey(j - 1), refs[j])]

RECURSIVE RefsOf(_, _, _)
RefsOf(edges, src, k) ==
    IF k > Len(edges) THEN <<>>
    ELSE (IF edges[k][1] = src THEN <<edges[k][2]>> ELSE <<>>) \o RefsOf(edges, src, k + 1)

GenericHeap(kinds, edges) ==
    [id \in 1..(NumObjs + 1) |->
        IF id = NumObjs + 1 THEN Atom("num")
        ELSE Obj(kinds[id], EntriesOf(kinds[id], RefsOf(edges, id, 1)))]

\* The objects a walk from the root (object 1) can reach along the edges.
RECURSIVE ReachableFrom(_, _, _)
ReachableFrom(edges, seen, n) ==
    IF n = 0 THEN seen
    ELSE ReachableFrom(edges,
                       seen \cup {edges[k][2] : k \in {j \in DOMAIN edges : edges[j][1] \in seen}},
                       n - 1)

\* Objects the walk cannot reach do not matter: they are left as empty lists.
NoUnreachableContent(kinds, edges) ==
    \A id \in (1..NumObjs) \ ReachableFrom(edges, {1}, NumObjs) :
        /\ kinds[id] = "list"
        /\ \A k \in DOMAIN edges : edges[k][1] # id

GenericHeaps ==
    {GenericHeap(ke[1], ke[2]) :
        ke \in {p \in [1..NumObjs -> {"list", "dict"}] \X
                       UNION {[1..n -> (1..NumObjs) \X (1..(NumObjs + 1))] : n \in 0..MaxEdges} :
                 NoUnreachableContent(p[1], p[2])}}

\* The items of a report: a number (5), a list of it and a string (7) and
\* an object with two attributes (8), whose names are strings (9, 10).
ReportItems == {5, 7, 8}
ReportKeys == DedupKeys \cup {"values_changed"}
PathKeys == <<"root", "root[0]">>

ReportHeap(key, rows) ==
    <<Obj("dict", <<Entry(StrKey(key), 2)>>),
      Obj("dict", [j \in DOMAIN rows |-> Entry(StrKey(PathKeys[j]), 2 + j)]),
      Obj("dict", [k \in DOMAIN rows[1] |-> Entry(IntKey(k - 1), rows[1][k])]),
      Obj("dict", IF Len(rows) > 1
                  THEN [k \in DOMAIN rows[2] |-> Entry(IntKey(k - 1), rows[2][k])]
                  ELSE <<>>),
      Atom("num"),
      Atom("str"),
      Obj("list", <<Entry(IntKey(0), 5), Entry(IntKey(1), 6)>>),
      Obj("object", <<Entry(IntKey(0), 9), Entry(IntKey(1), 10)>>),
      Atom("str"),
      Atom("str")>>

ReportRows == UNION {[1..n -> ReportItems] : n \in 1..MaxLen}

ReportHeaps ==
    {ReportHeap(key, rows) :
        key \in ReportKeys,
        rows \in UNION {[1..m -> ReportRows] : m \in 1..2}}

LengthInit ==
    /\ pc = "length_run"
    /\ heap \in GenericHeaps \cup ReportHeaps
    /\ stack = <<Frame(1, {})>>
    /\ diff_length = -1
    /\ max_ = Zero
    /\ ScalarIdle /\ VectorIdle /\ PairIdle /\ RoughIdle

LengthNext == LengthSkip \/ LengthDescend \/ LengthReturn

LengthSpec == LengthInit /\ [][LengthNext]_vars /\ WF_vars(LengthNext)

(***************************************************************************)
(* Properties of _get_item_length.                                          *)
(***************************************************************************)
MaxPos == IF MaxEdges > MaxLen THEN MaxEdges ELSE MaxLen
MaxPath == IF NumObjs + 1 > 4 THEN NumObjs + 1 ELSE 4

\* The object reached from the measured item by the first k positions of path.
RECURSIVE NodeAt(_, _)
NodeAt(path, k) == IF k = 0 THEN 1 ELSE heap[NodeAt(path, k - 1)].elems[path[k]].val

\* A counted path: every step follows an entry that exists and whose key is
\* not internal, no identity occurs twice after the measured item (the
\* names of an object's attributes are not guarded), and the path ends at
\* a number, a string or a class.
CountedPath(path) ==
    /\ \A k \in 1..Len(path) :
          LET from == heap[NodeAt(path, k - 1)]
          IN  /\ IsContainer(from)
              /\ path[k] <= Len(from.elems)
              /\ from.kind = "dict" => ~IsInternalKey(from.elems[path[k]].key)
              /\ from.kind \in {"dict", "list"} =>
                    \A j \in 1..(k - 1) : NodeAt(path, j) # NodeAt(path, k)
    /\ ScalarLength(heap[NodeAt(path, Len(path))]) = 1

CountedPaths ==
    {path \in UNION {[1..k -> 1..MaxPos] : k \in 1..MaxPath} : CountedPath(path)}

HasDedupKey ==
    \E id \in DOMAIN heap : \E k \in DOMAIN heap[id].elems :
        heap[id].elems[k].key.str /\ heap[id].elems[k].key.s \in DedupKeys

RECURSIVE SetSum(_, _)
SetSum(S, f) ==
    IF S = {} THEN 0
    ELSE LET x == CHOOSE y \in S : TRUE IN f[x] + SetSum(S \ {x}, f)

\* The size of a report item: 1 for a number or a string, the number of
\* elements of a list of scalars, the number of attributes of an object.
ItemSize(id) == IF IsContainer(heap[id]) THEN Len(heap[id].elems) ELSE ScalarLength(heap[id])

ValsOf(id) == {heap[id].elems[k].val : k \in DOMAIN heap[id].elems}

RootKeyIsDedup ==
    /\ heap[1].kind = "dict" /\ Len(heap[1].elems) = 1
    /\ heap[1].elems[1].key.s \in DedupKeys

\* The positions kept for a path are the first positions of each identity.
FirstOccurrencesKept(orig, kept) ==
    /\ ValsOf(kept) = ValsOf(orig)
    /\ Len(heap[kept].elems) = Cardinality(ValsOf(orig))
    /\ \A k \in DOMAIN heap[kept].elems :
          \E m \in DOMAIN heap[orig].elems :
             /\ heap[orig].elems[m] = heap[kept].elems[k]
             /\ \A n \in 1..(m - 1) : heap[orig].elems[n].val # heap[orig].elems[m].val

\* C7: under the two deduplicated keys the result is, summed over the paths,
\* the size of every distinct identity of the path, once: an identity at
\* two positions of a path counts once, an identity under two paths counts
\* in each, and the positions kept are the first of each identity.
C7_DedupPerPath ==
    (pc = "length_done" /\ RootKeyIsDedup) =>
      LET paths == heap[2].elems
          PathSize == [j \in DOMAIN paths |->
                          SetSum(ValsOf(paths[j].val), [id \in DOMAIN heap |-> ItemSize(id)])]
          new_subitem == Len(ReportHeap("values_changed", <<<<5>>>>)) + 1
      IN  /\ diff_length = SetSum(DOMAIN paths, PathSize)
          /\ \A j \in DOMAIN paths :
                FirstOccurrencesKept(paths[j].val, heap[new_subitem].elems[j].val)

C7_Witness ==
    /\ pc = "length_done"
    /\ RootKeyIsDedup
    /\ Len(heap[2].elems) = 2
    /\ [k \in DOMAIN heap[3].elems |-> heap[3].elems[k].val] = <<7, 7>>
    /\ [k \in DOMAIN heap[4].elems |-> heap[4].elems[k].val] = <<7, 5>>
    /\ diff_length = 5

(***************************************************************************)
(* The whole-object distance: one call of _get_rough_distance on a         *)
(* session (t1, t2, view, cutoff_distance_for_pairs, hashes).  The session *)
(* may have lost its hashes attribute; with the attribute, hashes.table    *)
(* maps the items hashed so far to their memoized rough lengths.           *)
(***************************************************************************)
DELTA_VIEW == "delta"
Views == {DELTA_VIEW, "tree"}

DISTANCE_CALCS_NEEDS_CACHE ==
    "Distance calculation can not happen once the cache is purged. Try with _cache='keep'"

\* A list of n numbers.
PyList(n) == Val("list", Int2Num(n), 0, 0, 0, 0)

\* The rough length DeepHash memoizes for an item: the number of elements
\* of a list, 1 for a number, a date or a string.
DeepHashLength(item) == IF item.cls = "list" THEN item.x.n ELSE 1

\* DeepHash(item, hashes=h, ...): populates h for the item.
DeepHash(item, h) == [h EXCEPT !.table = (item :> DeepHashLength(item)) @@ @]

\* DeepHash.get_key(h, key=key, default=None, extract_index=1).
get_key(h, key) == IF key \in DOMAIN h.table THEN Int2Num(h.table[key]) ELSE NoneNum

__calculate_item_deephash(h, item) == DeepHash(item, h)

\* The result of a length lookup: the length or the error, the hashes it
\* leaves, and the keys it read and the items it had hashed on the way.
Lookup(length, h, reads, hashed) ==
    [length |-> length, hashes |-> h, reads |-> reads, hashed |-> hashed]

__get_item_rough_length_NoAttrCheck(h, item) ==
    IF ~h.present
    THEN Lookup(Raise("AttributeError"), h, <<>>, <<>>)
    ELSE LET length == get_key(h, item)
         IN  IF length = NoneNum
             THEN LET h2 == __calculate_item_deephash(h, item)
                  IN  Lookup(Ok(get_key(h2, item)), h2, <<item, item>>, <<item>>)
             ELSE Lookup(Ok(length), h, <<item>>, <<>>)

__get_item_rough_length_AlwaysHash(h, item) ==
    IF ~h.present
    THEN Lookup(Raise(DISTANCE_CALCS_NEEDS_CACHE), h, <<>>, <<>>)
    ELSE LET h2 == __calculate_item_deephash(h, item)
         IN  Lookup(Ok(get_key(h2, item)), h2, <<item>>, <<item>>)

__get_item_rough_length(h, item) ==
    IF ~h.present
    THEN Lookup(Raise(DISTANCE_CALCS_NEEDS_CACHE), h, <<>>, <<>>)
    ELSE LET length == get_key(h, item)
         IN  IF length = NoneNum
             THEN LET h2 == __calculate_item_deephash(h, item)
                  IN  Lookup(Ok(get_key(h2, item)), h2, <<item, item>>, <<item>>)
             ELSE Lookup(Ok(length), h, <<item>>, <<>>)

\* The sessions: two numbers, a date, a string and a list as t1 and t2;
\* hashes absent, or holding the lengths of some of t1 and t2.
RoughValues == {PyInt(1), PyInt(MaxNum), PyDate(EpochOrdinal), PyOther("str"), PyList(MaxLen)}
HashesOf(items) ==
    {NoHashes} \cup
    {[present |-> TRUE, table |-> [i \in S |-> DeepHashLength(i)]] : S \in SUBSET items}

\* What _get_item_length is given: the result of the session as
\* {key: {path: {position: item}}}, with no entry or with one, and with the
\* internal entry _numpy_paths of a result on arrays.
EmptyReport == <<Obj("dict", <<>>)>>
WithNumpyPaths(report) ==
    [report EXCEPT ![1].elems = Append(@, Entry(StrKey("_numpy_paths"), 2))]
RoughReports ==
    LET reports == {ReportHeap("values_changed", <<<<i>>>>) : i \in ReportItems}
    IN  {EmptyReport} \cup reports \cup {WithNumpyPaths(r) : r \in reports}

RoughInit ==
    /\ pc = "rough_start"
    /\ t1 \in RoughValues
    /\ t2 \in RoughValues
    /\ view \in Views
    /\ cutoff_distance_for_pairs \in PairCeilings
    /\ hashes \in HashesOf({t1, t2})
    /\ t1_len = NoOutcome /\ t2_len = NoOutcome /\ rough_distance = NoOutcome
    /\ calls = NoCalls
    /\ max_ = Zero
    /\ hashes_added = <<>> /\ hashes_removed = <<>>
    /\ t1_hashtable = <<>> /\ t2_hashtable = <<>>
    /\ original_type = "None"
    /\ pre_calced_distances = [tag |-> "unset", table |-> <<>>]
    /\ ScalarIdle /\ VectorIdle /\ CompareIdle /\ LengthIdle

\* The variables _get_rough_distance leaves alone.
roughOthers == <<max_, scalarVars, vectorVars, pairVars, pre_calced_distances,
                 compareVars, t1, t2, view>>

\* Lines 33-37: the distance of two numbers, dates or times is returned at
\* once; an error of the dispatcher leaves the call with it.
RoughDispatch ==
    /\ pc = "rough_start"
    /\ LET _distance == get_numeric_types_distance(t1, t2, cutoff_distance_for_pairs)
       IN  IF _distance # not_found
           THEN rough_distance' = _distance /\ pc' = "rough_done"
           ELSE pc' = "rough_report" /\ UNCHANGED rough_distance
    /\ UNCHANGED <<lengthVars, hashes, t1_len, t2_len, calls, roughOthers>>

\* Lines 39-40: the item measured is the session itself in the delta view,
\* else the report _to_delta_dict builds; _get_item_length starts on it.
RoughReport ==
    /\ pc = "rough_report"
    /\ calls' = [calls EXCEPT !.report = (view # DELTA_VIEW)]
    /\ heap' \in RoughReports
    /\ stack' = <<Frame(1, {})>>
    /\ pc' = "length_run"
    /\ UNCHANGED <<diff_length, hashes, t1_len, t2_len, rough_distance, roughOthers>>

\* Lines 42-43.
RoughAfterLength ==
    /\ pc = "length_done"
    /\ IF diff_length = 0
       THEN rough_distance' = Ok(Zero) /\ pc' = "rough_done"
       ELSE pc' = "rough_len1" /\ UNCHANGED rough_distance
    /\ UNCHANGED <<lengthVars, hashes, t1_len, t2_len, calls, roughOthers>>

\* Line 45.
RoughLength1 ==
    /\ pc = "rough_len1"
    /\ LET r == __get_item_rough_length(hashes, t1)
       IN  /\ hashes' = r.hashes
           /\ calls' = [calls EXCEPT !.reads = @ \o r.reads, !.hashed = @ \o r.hashed]
           /\ IF r.length.tag = "raise"
              THEN rough_distance' = r.length /\ pc' = "rough_done" /\ UNCHANGED t1_len
              ELSE t1_len' = r.length /\ pc' = "rough_len2" /\ UNCHANGED rough_distance
    /\ UNCHANGED <<lengthVars, t2_len, roughOthers>>

\* Line 46.
RoughLength2 ==
    /\ pc = "rough_len2"
    /\ LET r == __get_item_rough_length(hashes, t2)
       IN  /\ hashes' = r.hashes
           /\ calls' = [calls EXCEPT !.reads = @ \o r.reads, !.hashed = @ \o r.hashed]
           /\ IF r.length.tag = "raise"
              THEN rough_distance' = r.length /\ pc' = "rough_done" /\ UNCHANGED t2_len
              ELSE t2_len' = r.length /\ pc' = "rough_return" /\ UNCHANGED rough_distance
    /\ UNCHANGED <<lengthVars, t1_len, roughOthers>>

\* Line 48: None + a number is a TypeError, a zero sum a ZeroDivisionError.
RoughReturn ==
    /\ pc = "rough_return"
    /\ rough_distance' =
          IF t1_len.val = NoneNum \/ t2_len.val = NoneNum THEN Raise("TypeError")
          ELSE PyTrueDiv(Int2Num(diff_length), FAdd(t1_len.val, t2_len.val))
    /\ pc' = "rough_done"
    /\ UNCHANGED <<lengthVars, hashes, t1_len, t2_len, calls, roughOthers>>

RoughNext ==
    \/ RoughDispatch
    \/ RoughReport
    \/ LengthSkip
    \/ LengthDescend
    \/ LengthReturn
    \/ RoughAfterLength
    \/ RoughLength1
    \/ RoughLength2
    \/ RoughReturn

RoughSpec == RoughInit /\ [][RoughNext]_vars

CacheDiscarded == ~hashes.present
NeedsCacheError == Raise(DISTANCE_CALCS_NEEDS_CACHE)
DispatcherOutcome == get_numeric_types_distance(t1, t2, cutoff_distance_for_pairs)

\* C3 as stated: once the session has no hashes attribute, every call of
\* _get_rough_distance ends with DISTANCE_CALCS_NEEDS_CACHE, whatever t1
\* and t2 are.
C3_Stated ==
    (pc = "rough_done" /\ CacheDiscarded) => rough_distance = NeedsCacheError

\* C3 as amended: without the hashes attribute the call ends with
\* DISTANCE_CALCS_NEEDS_CACHE, and with no distance, exactly when t1 and t2
\* share no numeric-like category and the report's size is not 0; before
\* that it ends with the dispatcher's outcome, or with 0 for an empty
\* report, and nothing is hashed.
C3_FailsWhereCacheIsNeeded ==
    (pc = "rough_done" /\ CacheDiscarded) =>
        /\ rough_distance =
              IF DispatcherOutcome # not_found THEN DispatcherOutcome
              ELSE IF diff_length = 0 THEN Ok(Zero)
              ELSE NeedsCacheError
        /\ calls.hashed = <<>>
        /\ hashes = NoHashes

C3_Witness ==
    /\ pc = "rough_done"
    /\ CacheDiscarded
    /\ t1 = PyList(MaxLen) /\ t2 = PyInt(1)
    /\ diff_length = 2
    /\ rough_distance = NeedsCacheError

CacheUntouched == calls.reads = <<>> /\ calls.hashed = <<>>

\* The outcome of the call by the three cases, in their order.
C8_Outcome ==
    pc = "rough_done" =>
        IF DispatcherOutcome # not_found
        THEN /\ rough_distance = DispatcherOutcome
             /\ ~calls.report /\ diff_length = -1
             /\ CacheUntouched
        ELSE IF diff_length = 0
        THEN /\ rough_distance = Ok(Zero)
             /\ CacheUntouched
        ELSE hashes.present =>
             /\ {t1, t2} \subseteq DOMAIN hashes.table
             /\ rough_distance =
                   Ok(FDivIEEE(Int2Num(diff_length),
                               Int2Num(hashes.table[t1] + hashes.table[t2])))

\* The item a step of the call looks up.
LookedUp == IF pc = "rough_len1" THEN t1 ELSE t2

\* A step hashes an item, or changes the hashes, only in a length lookup
\* of an item whose length is missing, and then both.
C8_HashesOnMiss ==
    (calls'.hashed # calls.hashed \/ hashes' # hashes) =>
        /\ pc \in {"rough_len1", "rough_len2"}
        /\ LookedUp \notin DOMAIN hashes.table
        /\ calls'.hashed = Append(calls.hashed, LookedUp)
        /\ hashes' = [hashes EXCEPT !.table = (LookedUp :> DeepHashLength(LookedUp)) @@ @]

\* C8: _get_rough_distance ends, in this order, (1) with the dispatcher's
\* outcome when t1 and t2 share a numeric-like category, no report asked
\* for and the hashes neither read nor populated; (2) with 0 when the
\* report's size is 0, the hashes neither read nor populated; (3) else with
\* diff_length / (len1 + len2) of the memoized lengths of t1 and t2, an
\* item being hashed only when its length is missing.
C8_Precedence == []C8_Outcome /\ [][C8_HashesOnMiss]_vars

C8_Witness ==
    /\ pc = "rough_done"
    /\ t1 = PyList(MaxLen) /\ t2 = PyOther("str")
    /\ calls.report
    /\ calls.hashed = <<t1>>
    /\ calls.reads = <<t1, t1, t2>>
    /\ diff_length = 1
    /\ rough_distance = Ok(Fin(1, MaxLen + 1))

====
